---- MODULE Spec2Model ----
(***************************************************************************)
(* A model of the gridMET raster-to-entity reduction engine:               *)
(*   src/src/python/gridmet/task.py      (package module, "gridmet.task")  *)
(*   src/src/python/gridmet_task.py      (earlier snapshot, "gridmet_task")*)
(*   src/src/python/gridmet/geometry.py  (PointInRaster)                   *)
(*                                                                         *)
(* Numbers that stand for Python floats are kept as integers.  The unit    *)
(* square offsets (x, y) of a point are counted in 1/UnitDen, and the      *)
(* value returned by bilinear() for an unmasked window is kept multiplied  *)
(* by UnitDen * UnitDen, so that no fraction is ever needed.  Calendar     *)
(* dates are kept as the day offset from ComputeGridmetTask.origin: the    *)
(* map to_date() is strictly increasing, so dates compare as offsets do.   *)
(***************************************************************************)
EXTENDS Integers, Sequences, FiniteSets, TLC

VARIABLES
    module,            \* which snapshot of the task module runs the job
    kind,              \* "points" (ComputePointsTask) or "shapes" (ComputeShapesTask)
    env,               \* what __init__ probes: free memory, file size, suffix, cpu count
    npoints,           \* number of data rows of the points file (after its header line)
    dataset,           \* the netCDF dataset: day offsets and the masked columns
    date_filter,       \* self.date_filter
    self,              \* fields of the compute task object
    pc,                \* position of the main (producer) thread
    loc,               \* locals of execute_loop / execute_parallel
    futures,           \* futures returned by submit_step, by step number
    tasks,             \* the local set `tasks` of execute_parallel
    asc,               \* state of the running as_completed() generator
    header,            \* header lines written to the output file
    out,               \* data rows written to the output stream
    flushed,           \* number of data rows flushed to the output file
    reads,             \* number of times the rows of the points file were read
    drained,           \* history: the steps whose rows were written, in order
    call               \* argument and result of a pure function under test

vars == <<module, kind, env, npoints, dataset, date_filter, self, pc, loc,
          futures, tasks, asc, header, out, flushed, reads, drained, call>>

(***************************************************************************)
(* Bounds of the model.                                                    *)
(***************************************************************************)
MaxPoints == 11        \* longest points file, in data rows
NDays     == 2         \* time steps of the dataset
UnitDen   == 2         \* denominator of the unit-square offsets
MaxMean   == 3         \* sub-results of combine: even numbers up to 2*MaxMean
MaxMem    == 100       \* largest free memory drawn for the choice of the mode
MaxSize   == 2         \* largest points-file size drawn for the choice of the mode

(***************************************************************************)
(* Program constants.  max_len is scaled down from 50000: a partition is   *)
(* cut by the same test (n > max_len) on a smaller count.                  *)
(***************************************************************************)
max_len       == 1
NO_DATA       == -999
LineCeiling   == 1000000
GzFactor      == 15
MemFactor     == 3

\* Python's None, a number, and numpy's masked constant, as CSV cell values.
NoneVal   == [t |-> "none", v |-> 0]
MaskedVal == [t |-> "masked", v |-> 0]
Num(v)    == [t |-> "num", v |-> v]

Range(s) == {s[i] : i \in DOMAIN s}

RECURSIVE Flatten(_)
Flatten(ss) == IF ss = <<>> THEN <<>> ELSE Head(ss) \o Flatten(Tail(ss))


(***************************************************************************)
(* Input data: the dataset, its layers, the points file.                   *)
(***************************************************************************)
Rows2 == 0 .. 1
Cells == Rows2 \X (0 .. 2)

\* dataset["day"][:] : the day offsets of the time dimension, ascending.
DatasetDays == [t \in 1 .. NDays |-> 43828 + t]

\* self.band.value: the band the job is asked for.
band == "tmmx"

\* dataset.variables.values(), in the order of the file: the name of each
\* variable and its standard_name ("None" when it has no such attribute).
\* A file may lack a variable whose standard_name is the band.
VariablesWithBand ==
    << [name |-> "day", standard_name |-> "None"],
       [name |-> "air_temperature", standard_name |-> band] >>

VariablesWithoutBand ==
    << [name |-> "day", standard_name |-> "None"],
       [name |-> "air_temperature", standard_name |-> "air_temperature"] >>

\* The datasets a job may be given: the columns whose cells are masked
\* (fill values of the netCDF variable) in every layer, and the variables.
Datasets ==
    { [days |-> DatasetDays, masked |-> mc, variables |-> vs] :
        mc \in {{}, {0, 1}}, vs \in {VariablesWithBand, VariablesWithoutBand} }

\* self.dataset[self.variable][idx, :, :] for the 0-based index idx:
\* a cell is its stored number v and the mask flag m of the masked array.
Layer(ds, idx) ==
    [cell \in Cells |->
        [v |-> 100 * (idx + 1) + 10 * cell[1] + cell[2],
         m |-> cell[2] \in ds.masked]]

\* rasterstats.io.Raster(layer, affine, nodata=...)
Raster(layer, nodata) == [array |-> layer, nodata |-> nodata]

\* raster.read(window=..., masked=True).array[i, j] is masked:
\* the windowed read (boundless by default) fills the cells beyond the
\* extent of the raster with nodata and masks the cells whose stored number
\* equals nodata.
ReadIsMasked(raster, window, i, j) ==
    LET cell == <<window[1][1] + i, window[2][1] + j>>
    IN  \/ cell \notin DOMAIN raster.array
        \/ raster.array[cell].v = raster.nodata

\* The columns of the points file taken as metadata, and the CSV rows of the
\* file.  The two coordinate columns are kept as what
\* point.point_window_unitxy(x, y, affine) makes of them: the 2x2 window
\* and the offsets in the unit square, in 1/UnitDen.
metadata == <<"ZIP", "SITE">>

PointsFileRow(i) ==
    [ZIP    |-> i,
     SITE   |-> i % 2,
     window |-> << <<0, 2>>, <<i % 2, (i % 2) + 2>> >>,
     unitxy |-> << i % UnitDen, (i \div 2) % UnitDen >>]

\* count_lines(f): the header line and one line per data row.
count_lines(n) == n + 1

\* str.lower() on the names the model uses.
Lower(s) ==
    CASE s = "ZIP" -> "zip"
      [] s = "SITE" -> "site"
      [] s = "GZ" -> "gz"
      [] s = "Gz" -> "gz"
      [] OTHER -> s

(***************************************************************************)
(* PointInRaster (gridmet/geometry.py).                                    *)
(***************************************************************************)
COMPLETELY_MASKED == 1
PARTIALLY_MASKED  == 2

\* itertools.product([0,1], [0,1])
Corners == << <<0, 0>>, <<0, 1>>, <<1, 0>>, <<1, 1>> >>

CornerInvalid(raster, window, k) ==
    LET i == Corners[k][1]
        j == Corners[k][2]
        r == window[1][1] + i
        c == window[2][1] + j
    IN  \/ ReadIsMasked(raster, window, i, j)
        \/ raster.array[<<r, c>>].m

\* PointInRaster.__init__ with r and c assigned on every corner of the loop,
\* valid or not.
PointInRaster_any_corner(raster, window, unitxy) ==
    LET valid == {k \in 1 .. 4 : ~CornerInvalid(raster, window, k)}
        m     == 4 - Cardinality(valid)
    IN  [window |-> window,
         x      |-> unitxy[1],
         y      |-> unitxy[2],
         masked |-> IF m = 4 THEN COMPLETELY_MASKED
                    ELSE IF m > 0 THEN PARTIALLY_MASKED ELSE 0,
         r      |-> window[1][1] + 1,
         c      |-> window[2][1] + 1]

\* PointInRaster.__init__: r and c keep the last valid corner of the loop
\* (-1 stands for the attribute never having been assigned).
PointInRaster(raster, window, unitxy) ==
    LET valid == {k \in 1 .. 4 : ~CornerInvalid(raster, window, k)}
        m     == 4 - Cardinality(valid)
        last  == IF valid = {} THEN 0
                 ELSE CHOOSE k \in valid : \A k2 \in valid : k2 <= k
    IN  [window |-> window,
         x      |-> unitxy[1],
         y      |-> unitxy[2],
         masked |-> IF m = 4 THEN COMPLETELY_MASKED
                    ELSE IF m > 0 THEN PARTIALLY_MASKED ELSE 0,
         r      |-> IF last = 0 THEN -1 ELSE window[1][1] + Corners[last][1],
         c      |-> IF last = 0 THEN -1 ELSE window[2][1] + Corners[last][2]]

is_masked(point) == point.masked = COMPLETELY_MASKED

\* A cell of raster.array as a CSV value; numbers are kept times UnitDen^2.
CellValue(cell) ==
    IF cell.m THEN MaskedVal ELSE Num(cell.v * UnitDen * UnitDen)

\* bilinear with the upper and the lower row of the window exchanged.
bilinear_rows_swapped(point, raster) ==
    IF point.masked = COMPLETELY_MASKED THEN NoneVal
    ELSE IF point.masked = PARTIALLY_MASKED
    THEN CellValue(raster.array[<<point.r, point.c>>])
    ELSE
      LET r0 == point.window[1][1]
          c0 == point.window[2][1]
          ll == raster.array[<<r0, c0>>]
          lr == raster.array[<<r0, c0 + 1>>]
          ul == raster.array[<<r0 + 1, c0>>]
          ur == raster.array[<<r0 + 1, c0 + 1>>]
          x  == point.x
          y  == point.y
      IN  IF ul.m \/ ur.m \/ ll.m \/ lr.m THEN MaskedVal
          ELSE Num( ll.v * (UnitDen - x) * (UnitDen - y)
                  + lr.v * x * (UnitDen - y)
                  + ul.v * (UnitDen - x) * y
                  + ur.v * x * y )

\* PointInRaster.bilinear
bilinear(point, raster) ==
    IF point.masked = COMPLETELY_MASKED THEN NoneVal
    ELSE IF point.masked = PARTIALLY_MASKED
    THEN CellValue(raster.array[<<point.r, point.c>>])
    ELSE
      LET r0 == point.window[1][1]
          c0 == point.window[2][1]
          ul == raster.array[<<r0, c0>>]
          ur == raster.array[<<r0, c0 + 1>>]
          ll == raster.array[<<r0 + 1, c0>>]
          lr == raster.array[<<r0 + 1, c0 + 1>>]
          x  == point.x
          y  == point.y
      IN  IF ul.m \/ ur.m \/ ll.m \/ lr.m THEN MaskedVal
          ELSE Num( ll.v * (UnitDen - x) * (UnitDen - y)
                  + lr.v * x * (UnitDen - y)
                  + ul.v * (UnitDen - x) * y
                  + ur.v * x * y )


(***************************************************************************)
(* Zonal statistics of the two polygons of the shape file, as rasterstats  *)
(* zonal_stats(..., stats="mean", all_touched=...) returns them: polygon p *)
(* has its centre in cell (0, p-1) and also touches cell (1, p-1).  Means  *)
(* are kept times UnitDen^2 like every number of a row.                    *)
(***************************************************************************)
Polygons == 1 .. 2

PolygonCells(p, all_touched) ==
    IF all_touched THEN {<<0, p - 1>>, <<1, p - 1>>} ELSE {<<0, p - 1>>}

zonal_stats(layer, all_touched) ==
    [p \in Polygons |->
        LET cs == {c \in PolygonCells(p, all_touched) : ~layer[c].m}
            a  == layer[<<0, p - 1>>].v
            b  == layer[<<1, p - 1>>].v
        IN  [prop |-> p,
             mean |-> IF cs = {} THEN NoneVal
                      ELSE IF Cardinality(cs) = 1
                      THEN Num(layer[CHOOSE c \in cs : TRUE].v * UnitDen * UnitDen)
                      ELSE Num(((a + b) * UnitDen * UnitDen) \div 2)]]

\* Python truth value of a mean: None and 0 are false.
Truthy(m) == m.t = "num" /\ m.v # 0

\* ComputeShapesTask.combine (gridmet_task.py): the mean, or the
\* AssertionError it raises.  (m1 + m2) / 2 is exact on the even numbers
\* the model draws.
combine(m1, m2) ==
    IF Truthy(m1) /\ Truthy(m2) THEN Num((m1.v + m2.v) \div 2)
    ELSE IF Truthy(m2) THEN m2
    ELSE IF Truthy(m1) THEN [t |-> "AssertionError", v |-> 0]
    ELSE NoneVal

(***************************************************************************)
(* ComputeGridmetTask and its subclasses.                                  *)
(***************************************************************************)
Modules == {"gridmet_task", "gridmet.task"}

force_standard_api == FALSE

\* Strings the program converts or takes apart are sequences of characters.
Digits == <<"0", "1", "2", "3", "4", "5", "6", "7", "8", "9">>

\* str(n) for 0 <= n <= 99
str(n) ==
    IF n < 10 THEN <<Digits[n + 1]>>
    ELSE <<Digits[(n \div 10) + 1], Digits[(n % 10) + 1]>>

\* str.lstrip(ch), str.rstrip(ch), str.strip(ch)
RECURSIVE lstrip(_, _)
lstrip(s, ch) ==
    IF s # <<>> /\ Head(s) = ch THEN lstrip(Tail(s), ch) ELSE s

RECURSIVE rstrip(_, _)
rstrip(s, ch) ==
    IF s # <<>> /\ s[Len(s)] = ch THEN rstrip(SubSeq(s, 1, Len(s) - 1), ch)
    ELSE s

strip(s, ch) == rstrip(lstrip(s, ch), ch)

\* str.split(sep)
RECURSIVE split(_, _)
split(s, sep) ==
    LET at == {i \in DOMAIN s : s[i] = sep}
    IN  IF at = {} THEN <<s>>
        ELSE LET i == CHOOSE i \in at : \A j \in at : i <= j
             IN  <<SubSeq(s, 1, i - 1)>> \o split(SubSeq(s, i + 1, Len(s)), sep)

\* datetime.date: a date is its number of days since the origin 1900-01-01;
\* date.month and date.day for the dates of the leap year 2020.
MonthLengths == <<31, 29, 31, 30, 31, 30, 31, 31, 30, 31, 30, 31>>

RECURSIVE MonthDay(_, _)
MonthDay(n, m) ==
    IF n <= MonthLengths[m] THEN [month |-> m, day |-> n]
    ELSE MonthDay(n - MonthLengths[m], m + 1)

DateFields(date) == MonthDay(date - 43828, 1)

\* day.strftime("%m-%d")
strftime_md(date) ==
    LET f == DateFields(date)
    IN  <<Digits[(f.month \div 10) + 1], Digits[(f.month % 10) + 1], "-",
          Digits[(f.day \div 10) + 1], Digits[(f.day % 10) + 1]>>

\* DateFilter.__init__ for "dayofmonth:", "month:" and "date:" filters:
\* prefix and list are bounds[0] and bounds[1] of value.split(':').
DateFilter(prefix, list) ==
    LET parts == split(list, ",")
    IN  [ftype  |-> Lower(prefix),
         min    |-> 0,
         max    |-> 0,
         values |-> [i \in DOMAIN parts |-> strip(parts[i], " ")]]

\* DateFilter.accept with the month test made on the day of the month.
accept_month_by_day(filter, day) ==
    IF filter.ftype \in {"dayofmonth", "month"}
    THEN str(DateFields(day).day) \in Range(filter.values)
    ELSE IF filter.ftype = "date"
    THEN LET dt == strftime_md(day)
         IN  dt \in Range(filter.values)
                 \/ strip(dt, "0") \in Range(filter.values)
    ELSE IF filter.ftype = "range"
    THEN ~(day < filter.min) /\ ~(day > filter.max)
    ELSE TRUE

\* DateFilter.accept; `day` is a date.
accept(filter, day) ==
    IF filter.ftype = "dayofmonth"
    THEN str(DateFields(day).day) \in Range(filter.values)
    ELSE IF filter.ftype = "month"
    THEN str(DateFields(day).month) \in Range(filter.values)
    ELSE IF filter.ftype = "date"
    THEN LET dt == strftime_md(day)
         IN  dt \in Range(filter.values)
                 \/ strip(dt, "0") \in Range(filter.values)
    ELSE IF filter.ftype = "range"
    THEN ~(day < filter.min) /\ ~(day > filter.max)
    ELSE TRUE

to_date(day) == day

\* ComputeGridmetTask.get_days (the earlier snapshot has no date filter).
get_days(mod, ds, filter) ==
    IF mod = "gridmet.task" /\ filter.ftype # "None"
    THEN SelectSeq(ds.days, LAMBDA day : accept(filter, to_date(day)))
    ELSE ds.days

\* get_variable falling back on the first variable of the file.
get_variable_or_first(ds, standard_name) ==
    LET found == {i \in DOMAIN ds.variables :
                     ds.variables[i].standard_name = standard_name}
    IN  IF found = {} THEN ds.variables[1].name
        ELSE ds.variables[CHOOSE i \in found : \A j \in found : i <= j].name

\* gridmet_tools.get_variable: the name of the first variable whose
\* standard_name is the band; raises Exception when there is none.
get_variable(ds, standard_name) ==
    LET found == {i \in DOMAIN ds.variables :
                     ds.variables[i].standard_name = standard_name}
    IN  IF found = {} THEN "Exception"
        ELSE ds.variables[CHOOSE i \in found : \A j \in found : i <= j].name

\* ChooseMode without the inflation of the size of a compressed file.
ChooseMode_NoInflation(mem, file_size, suffix, n_lines) ==
    IF mem > file_size * MemFactor /\ n_lines < LineCeiling
    THEN [points_in_memory |-> TRUE, partition |-> FALSE]
    ELSE [points_in_memory |-> FALSE, partition |-> TRUE]

\* ComputePointsTask.__init__: the choice of the execution mode.
ChooseMode(mem, file_size, suffix, n_lines) ==
    LET size == IF Lower(suffix) = "gz" THEN file_size * GzFactor ELSE file_size
        pim  == IF force_standard_api THEN "False"
                ELSE IF mem > size * MemFactor /\ n_lines < LineCeiling
                     THEN "True" ELSE "None"
    IN  IF pim = "None"
        THEN [points_in_memory |-> FALSE, partition |-> TRUE]
        ELSE [points_in_memory |-> (pim = "True"), partition |-> FALSE]

\* os.cpu_count() on the machine of the run.
cpu_count == 1

\* os.cpu_count() * 2
Workers(cpus) == cpus * 2

\* add_point keeping the completely masked points as well.
add_point_keep_masked(first_layer, row, to) ==
    Append(to, [metadata |-> [k \in DOMAIN metadata |-> row[metadata[k]]],
                point    |-> PointInRaster(first_layer, row.window,
                                           row.unitxy)])

\* ComputePointsTask.add_point: the list `to` with the point appended,
\* or unchanged when the point is completely masked.
add_point(first_layer, row, to) ==
    LET point == PointInRaster(first_layer, row.window, row.unitxy)
    IN  IF is_masked(point) THEN to
        ELSE Append(to, [metadata |-> [k \in DOMAIN metadata |-> row[metadata[k]]],
                         point    |-> point])

\* ComputePointsTask.read_points
RECURSIVE read_points(_, _, _)
read_points(first_layer, n, i) ==
    IF i > n THEN <<>>
    ELSE add_point(first_layer, PointsFileRow(i), <<>>)
         \o read_points(first_layer, n, i + 1)

\* compute_one_day_ram walking the point list from its end.
compute_one_day_ram_reversed(date, layer, points) ==
    LET raster == Raster(layer, NO_DATA)
        n == Len(points)
    IN  [k \in DOMAIN points |->
            [mean |-> bilinear(points[n + 1 - k].point, raster),
             date |-> date,
             meta |-> points[n + 1 - k].metadata]]

\* ComputePointsTask.compute_one_day_ram
compute_one_day_ram(date, layer, points) ==
    LET raster == Raster(layer, NO_DATA)
    IN  [k \in DOMAIN points |->
            [mean |-> bilinear(points[k].point, raster),
             date |-> date,
             meta |-> points[k].metadata]]

\* ComputeShapesTask.compute_one_day.  In gridmet_task.py both calls of
\* zonal_stats pass all_touched=False; in gridmet/task.py the records come
\* from nsaph_gis StatsCounter.process, one per polygon in shape-file order.
compute_one_day_shapes(mod, strategy, day, layer) ==
    LET stats1 == zonal_stats(layer, FALSE)
        stats2 == zonal_stats(layer, mod = "gridmet.task")
    IN  [p \in Polygons |->
            [mean |-> IF strategy = "combined"
                      THEN combine(stats1[p].mean, stats2[p].mean)
                      ELSE IF strategy = "default" THEN stats1[p].mean
                      ELSE stats2[p].mean,
             date |-> to_date(day),
             meta |-> <<stats1[p].prop>>]]

\* The header row: [self.band.value, "date", self.get_key().lower()]
HeaderRow(k) ==
    <<band, "date", IF k = "points" THEN Lower(metadata[1]) ELSE "zip">>


(***************************************************************************)
(* The job as a state machine.                                             *)
(***************************************************************************)
NoFilter  == [ftype |-> "None", min |-> 0, max |-> 0]
NoRaster  == [array |-> <<>>, nodata |-> 0]
NoCall    == [op |-> "none"]
IdleAsc   == [finished |-> {}, pending |-> {}, queue |-> <<>>]
NewSelf   == [points_in_memory |-> FALSE, partition |-> FALSE, workers |-> 0,
              points |-> <<>>, first_layer |-> NoRaster, variable |-> "None"]
NewLoc    == [days |-> <<>>, idx |-> 0, n |-> 0, nn |-> 0, step |-> 1,
              points |-> <<>>]

\* The date filters a job may be given: none, or a range that rejects the
\* first day of the dataset.
Filters == {NoFilter,
            [ftype |-> "range", min |-> DatasetDays[1] + 1,
             max |-> DatasetDays[1] + NDays]}

\* The header line of the output file an earlier run has left at the path
\* of the output of the job.
StaleHeader == <<"stale", "date", "zip">>

Init ==
    /\ module \in Modules
    /\ kind \in {"points", "shapes"}
    /\ npoints \in (IF kind = "points" THEN 0 .. MaxPoints ELSE {0})
    /\ dataset \in Datasets
    /\ date_filter \in (IF module = "gridmet.task" THEN Filters ELSE {NoFilter})
    /\ env \in [mem       : IF kind = "points"
                            THEN {0, 4 * 20 * (MaxPoints + 1)} ELSE {0},
                file_size : {20 * count_lines(npoints)},
                suffix    : {"csv"},
                cpu_count : {cpu_count},
                strategy  : IF kind = "shapes"
                            THEN {"default", "all_touched", "combined"}
                            ELSE {"default"}]
    /\ self = NewSelf
    /\ pc = "new"
    /\ loc = NewLoc
    /\ futures = <<>>
    /\ tasks = {}
    /\ asc = IdleAsc
    /\ header = <<StaleHeader>>
    /\ out = <<>>
    /\ flushed = 0
    /\ reads = 0
    /\ drained = <<>>
    /\ call = NoCall

\* ComputePointsTask.__init__ / ComputeShapesTask.__init__
Construct ==
    /\ pc = "new"
    /\ pc' = "constructed"
    /\ self' = IF kind = "points"
               THEN LET mode == ChooseMode(env.mem, env.file_size, env.suffix,
                                           count_lines(npoints))
                    IN  [self EXCEPT !.points_in_memory = mode.points_in_memory,
                                     !.partition = mode.partition,
                                     !.workers = Workers(env.cpu_count)]
               ELSE self
    /\ UNCHANGED <<module, kind, env, npoints, dataset, date_filter, loc,
                   futures, tasks, asc, header, out, flushed, reads, drained, call>>

\* ComputeGridmetTask.prepare, and ComputePointsTask.prepare on top of it.
\* The exception of get_variable leaves prepare and execute: the job fails.
Prepare ==
    /\ pc = "constructed"
    /\ LET variable == get_variable(dataset, band)
           first_layer == Raster(Layer(dataset, 0), -NO_DATA)
           read == kind = "points" /\ self.points_in_memory
       IN  IF variable = "Exception"
           THEN /\ pc' = "failed"
                /\ UNCHANGED <<loc, self, reads>>
           ELSE /\ pc' = "prepared"
                /\ loc' = [loc EXCEPT
                             !.days = get_days(module, dataset, date_filter)]
                /\ self' = [self EXCEPT
                       !.variable = variable,
                       !.first_layer = IF kind = "points" THEN first_layer
                                       ELSE @,
                       !.points = IF read
                                  THEN read_points(first_layer, npoints, 1)
                                  ELSE @]
                /\ reads' = IF read THEN reads + 1 ELSE reads
    /\ UNCHANGED <<module, kind, env, npoints, dataset, date_filter,
                   futures, tasks, asc, header, out, flushed, drained, call>>

\* ComputePointsTask.execute: gridmet_task.py runs the daily loop of the base
\* class unless self.partition; gridmet/task.py always runs execute_parallel.
UsesLoop ==
    \/ kind = "shapes"
    \/ module = "gridmet_task" /\ ~self.partition

\* ComputeGridmetTask.execute_loop up to the call of collect_data.
OpenLoop ==
    /\ pc = "prepared"
    /\ UsesLoop
    /\ pc' = "loop"
    /\ header' = <<HeaderRow(kind)>>
    /\ out' = <<>>
    /\ flushed' = 0
    /\ loc' = [loc EXCEPT !.idx = 0]
    /\ UNCHANGED <<module, kind, env, npoints, dataset, date_filter, self,
                   futures, tasks, asc, reads, drained, call>>

\* The layer collect_data and execute_step read for the loop index idx.
LayerRead(idx) == Layer(dataset, idx)

\* ComputeGridmetTask.compute_one_day as the subclass implements it.
compute_one_day(day, layer) ==
    IF kind = "shapes"
    THEN compute_one_day_shapes(module, env.strategy, day, layer)
    ELSE compute_one_day_ram(to_date(day), layer, self.points)

\* One iteration of the loop of collect_data: compute the day, flush.
CollectDay ==
    /\ pc = "loop"
    /\ loc.idx < Len(loc.days)
    /\ LET day   == loc.days[loc.idx + 1]
           layer == LayerRead(loc.idx)
       IN  out' = out \o compute_one_day(day, layer)
    /\ flushed' = Len(out')
    /\ loc' = [loc EXCEPT !.idx = @ + 1]
    /\ UNCHANGED <<module, kind, env, npoints, dataset, date_filter, self, pc,
                   futures, tasks, asc, header, reads, drained, call>>

\* collect_data returns and execute_loop closes the output file.
CloseLoop ==
    /\ pc = "loop"
    /\ loc.idx = Len(loc.days)
    /\ pc' = "done"
    /\ flushed' = Len(out)
    /\ UNCHANGED <<module, kind, env, npoints, dataset, date_filter, self, loc,
                   futures, tasks, asc, header, out, reads, drained, call>>


(***************************************************************************)
(* ComputePointsTask.execute_parallel: the producer (main thread).         *)
(***************************************************************************)
\* A limit of in-flight tasks one too high.
max_tasks_plus_one == self.workers * 2 + 1

\* max_tasks = self.workers * 2
max_tasks == self.workers * 2

\* ComputePointsTask.submit_step: a new ListCollector and the future of
\* execute_step(step, days, points, collector) queued on the executor.
submit_step(points) ==
    [status |-> "queued", idx |-> 0, points |-> points, collection |-> <<>>]

\* execute_parallel up to the first row: prepare has run; the points file
\* and the output file are opened, the header row is written.
OpenParallel ==
    /\ pc = "prepared"
    /\ ~UsesLoop
    /\ pc' = "reading"
    /\ header' = <<HeaderRow(kind)>>
    /\ out' = <<>>
    /\ flushed' = 0
    /\ reads' = reads + 1
    /\ loc' = [loc EXCEPT !.n = 0, !.nn = 0, !.step = 1, !.points = <<>>]
    /\ tasks' = {}
    /\ UNCHANGED <<module, kind, env, npoints, dataset, date_filter, self,
                   futures, asc, drained, call>>

\* One iteration of `for row in reader` where the list handed to
\* submit_step is emptied in place and filled again (points.clear() for
\* points = []): the last submitted partition shares the list being filled.
ReadRow_shared_list ==
    /\ pc = "reading"
    /\ loc.nn < npoints
    /\ LET row    == PointsFileRow(loc.nn + 1)
           points == add_point(self.first_layer, row, loc.points)
           added  == Len(points) > Len(loc.points)
           n      == IF added THEN loc.n + 1 ELSE loc.n
           cut    == added /\ n > max_len
           shared == [k \in DOMAIN futures |->
                        IF k = Len(futures) /\ futures[k].status # "done"
                        THEN [futures[k] EXCEPT !.points = points]
                        ELSE futures[k]]
       IN  /\ loc' = [loc EXCEPT !.nn = @ + 1,
                                 !.n = IF cut THEN 0 ELSE n,
                                 !.points = IF cut THEN <<>> ELSE points,
                                 !.step = IF cut THEN @ + 1 ELSE @]
           /\ futures' = IF cut THEN Append(shared, submit_step(points))
                         ELSE shared
           /\ tasks' = IF cut THEN tasks \cup {loc.step} ELSE tasks
           /\ pc' = IF cut /\ Cardinality(tasks') > max_tasks
                    THEN "bp_begin" ELSE "reading"
    /\ UNCHANGED <<module, kind, env, npoints, dataset, date_filter, self,
                   asc, header, out, flushed, reads, drained, call>>

\* One iteration of `for row in reader`.
ReadRow ==
    /\ pc = "reading"
    /\ loc.nn < npoints
    /\ LET row    == PointsFileRow(loc.nn + 1)
           points == add_point(self.first_layer, row, loc.points)
           added  == Len(points) > Len(loc.points)
           n      == IF added THEN loc.n + 1 ELSE loc.n
           cut    == added /\ n > max_len
       IN  /\ loc' = [loc EXCEPT !.nn = @ + 1,
                                 !.n = IF cut THEN 0 ELSE n,
                                 !.points = IF cut THEN <<>> ELSE points,
                                 !.step = IF cut THEN @ + 1 ELSE @]
           /\ futures' = IF cut THEN Append(futures, submit_step(points))
                         ELSE futures
           /\ tasks' = IF cut THEN tasks \cup {loc.step} ELSE tasks
           /\ pc' = IF cut /\ Cardinality(tasks') > max_tasks
                    THEN "bp_begin" ELSE "reading"
    /\ UNCHANGED <<module, kind, env, npoints, dataset, date_filter, self,
                   asc, header, out, flushed, reads, drained, call>>

\* The reader is exhausted: the points left over are submitted (the future
\* returned by submit_step is dropped), then the final loop starts.
EndOfFile ==
    /\ pc = "reading"
    /\ loc.nn = npoints
    /\ futures' = IF Len(loc.points) > 0
                  THEN Append(futures, submit_step(loc.points)) ELSE futures
    /\ pc' = "final_begin"
    /\ UNCHANGED <<module, kind, env, npoints, dataset, date_filter, self, loc,
                   tasks, asc, header, out, flushed, reads, drained, call>>

\* The states of a future whose call has ended, by a return or a raise.
Completed == {"done", "failed"}

\* concurrent.futures.as_completed(tasks), first step of the generator:
\* the futures already finished are set apart, the others get a waiter.
AsCompletedBegin ==
    /\ pc \in {"bp_begin", "final_begin"}
    /\ LET finished == {k \in tasks : futures[k].status \in Completed}
       IN  asc' = [finished |-> finished, pending |-> tasks \ finished,
                   queue |-> <<>>]
    /\ pc' = IF pc = "bp_begin" THEN "bp_wait" ELSE "final_wait"
    /\ UNCHANGED <<module, kind, env, npoints, dataset, date_filter, self, loc,
                   futures, tasks, header, out, flushed, reads, drained, call>>

\* The futures as_completed may yield next: any of those found finished at
\* the start, and after them the others in the order they complete.
AscNext ==
    IF asc.finished # {} THEN asc.finished
    ELSE IF asc.queue # <<>> THEN {Head(asc.queue)}
    ELSE {}

AscAfter(k) ==
    IF k \in asc.finished THEN [asc EXCEPT !.finished = @ \ {k}]
    ELSE [asc EXCEPT !.queue = Tail(@)]

\* A write of the rows of a task that lands after the first row already in
\* the output, as writes of two threads sharing the stream may.
WriteResult_interleaved(k) ==
    /\ out' = IF out = <<>> THEN futures[k].collection
              ELSE <<Head(out)>> \o futures[k].collection \o Tail(out)
    /\ flushed' = Len(out')
    /\ drained' = Append(drained, k)

\* The rows of one completed task are written and flushed.
WriteResult(k) ==
    /\ out' = out \o futures[k].collection
    /\ flushed' = Len(out')
    /\ drained' = Append(drained, k)

\* Backpressure that writes the first completed task and leaves it in the
\* tracked set.
DrainOne_keeping_task ==
    /\ pc = "bp_wait"
    /\ \E k \in AscNext : WriteResult(k)
    /\ asc' = IdleAsc
    /\ pc' = "reading"
    /\ UNCHANGED <<module, kind, env, npoints, dataset, date_filter, self, loc,
                   futures, tasks, header, reads, call>>

\* Backpressure: the body of `for completed_task in as_completed(tasks)`
\* inside the reading loop, which breaks after the first task.
DrainOne ==
    /\ pc = "bp_wait"
    /\ \E k \in AscNext :
          /\ futures[k].status = "done"
          /\ WriteResult(k)
          /\ tasks' = tasks \ {k}
    /\ asc' = IdleAsc
    /\ pc' = "reading"
    /\ UNCHANGED <<module, kind, env, npoints, dataset, date_filter, self, loc,
                   futures, header, reads, call>>

\* One iteration of the final `for completed_task in as_completed(tasks)`.
DrainFinal ==
    /\ pc = "final_wait"
    /\ \E k \in AscNext :
          /\ futures[k].status = "done"
          /\ WriteResult(k)
          /\ asc' = AscAfter(k)
    /\ UNCHANGED <<module, kind, env, npoints, dataset, date_filter, self, pc,
                   loc, futures, tasks, header, reads, call>>

\* The final loop is over; leaving the `with` block shuts the executor down
\* (waiting for every submitted task) and closes the files.
CloseParallel ==
    /\ pc = "final_wait"
    /\ asc.finished = {} /\ asc.pending = {} /\ asc.queue = <<>>
    /\ \A k \in DOMAIN futures : futures[k].status \in Completed
    /\ pc' = "done"
    /\ asc' = IdleAsc
    /\ flushed' = Len(out)
    /\ UNCHANGED <<module, kind, env, npoints, dataset, date_filter, self, loc,
                   futures, tasks, header, out, reads, drained, call>>

(***************************************************************************)
(* The worker threads of the ThreadPoolExecutor.                           *)
(***************************************************************************)
Running ==
    {k \in DOMAIN futures : futures[k].status \in {"running", "reading"}}
Queued  == {k \in DOMAIN futures : futures[k].status = "queued"}

\* A free worker thread takes the oldest queued work item.
WorkerStart(k) ==
    /\ k \in Queued
    /\ \A j \in Queued : k <= j
    /\ Cardinality(Running) < self.workers
    /\ futures' = [futures EXCEPT ![k].status = "running"]
    /\ UNCHANGED <<module, kind, env, npoints, dataset, date_filter, self, pc,
                   loc, tasks, asc, header, out, flushed, reads, drained, call>>

\* One iteration of the loop of execute_step: the rows of one day go to the
\* ListCollector of the step; ListCollector.flush does nothing.
WorkerDay(k) ==
    /\ futures[k].status = "running"
    /\ futures[k].idx < Len(loc.days)
    /\ LET idx   == futures[k].idx
           dt    == to_date(loc.days[idx + 1])
           layer == LayerRead(idx)
       IN  futures' = [futures EXCEPT
               ![k].collection = @ \o compute_one_day_ram(dt, layer,
                                                          futures[k].points),
               ![k].idx = idx + 1]
    /\ UNCHANGED <<module, kind, env, npoints, dataset, date_filter, self, pc,
                   loc, tasks, asc, header, out, flushed, reads, drained, call>>

\* execute_step returns collector.get_result(); the future completes and
\* the waiter of a running as_completed records it.
WorkerReturn(k) ==
    /\ futures[k].status = "running"
    /\ futures[k].idx = Len(loc.days)
    /\ futures' = [futures EXCEPT ![k].status = "done"]
    /\ asc' = IF k \in asc.pending
              THEN [asc EXCEPT !.pending = @ \ {k}, !.queue = Append(@, k)]
              ELSE asc
    /\ UNCHANGED <<module, kind, env, npoints, dataset, date_filter, self, pc,
                   loc, tasks, header, out, flushed, reads, drained, call>>

Worker ==
    \E k \in DOMAIN futures : WorkerStart(k) \/ WorkerDay(k) \/ WorkerReturn(k)

Next ==
    \/ Construct
    \/ Prepare
    \/ OpenLoop
    \/ CollectDay
    \/ CloseLoop
    \/ OpenParallel
    \/ ReadRow
    \/ EndOfFile
    \/ AsCompletedBegin
    \/ DrainOne
    \/ DrainFinal
    \/ CloseParallel
    \/ Worker

Spec == Init /\ [][Next]_vars


(***************************************************************************)
(* The choice of the execution mode on its own: __init__ over free memory, *)
(* file size, file suffix and file length around their thresholds.         *)
(***************************************************************************)
InitMode ==
    /\ module = "gridmet.task"
    /\ kind = "points"
    /\ npoints \in {0, LineCeiling - 2, LineCeiling - 1, LineCeiling}
    /\ dataset = [days |-> DatasetDays, masked |-> {},
                 variables |-> VariablesWithBand]
    /\ date_filter = NoFilter
    /\ env \in [mem       : 0 .. MaxMem,
                file_size : 0 .. MaxSize,
                suffix    : {"csv", "gz", "GZ"},
                cpu_count : {cpu_count},
                strategy  : {"default"}]
    /\ self = NewSelf
    /\ pc = "new"
    /\ loc = NewLoc
    /\ futures = <<>>
    /\ tasks = {}
    /\ asc = IdleAsc
    /\ header = <<>>
    /\ out = <<>>
    /\ flushed = 0
    /\ reads = 0
    /\ drained = <<>>
    /\ call = NoCall

SpecMode == InitMode /\ [][Construct]_vars

(***************************************************************************)
(* ComputeShapesTask.combine on its own, over pairs of sub-results.        *)
(***************************************************************************)
Means == {NoneVal} \cup {Num(2 * v) : v \in (0 - MaxMean) .. MaxMean}

Pending == [t |-> "pending", v |-> 0]

InitCombine ==
    /\ module = "gridmet_task"
    /\ kind = "shapes"
    /\ npoints = 0
    /\ dataset = [days |-> DatasetDays, masked |-> {},
                 variables |-> VariablesWithBand]
    /\ date_filter = NoFilter
    /\ env = [mem |-> 0, file_size |-> 0, suffix |-> "csv", cpu_count |-> cpu_count,
              strategy |-> "combined"]
    /\ self = NewSelf
    /\ pc = "new"
    /\ loc = NewLoc
    /\ futures = <<>>
    /\ tasks = {}
    /\ asc = IdleAsc
    /\ header = <<>>
    /\ out = <<>>
    /\ flushed = 0
    /\ reads = 0
    /\ drained = <<>>
    /\ call \in [op : {"combine"}, m1 : Means, m2 : Means, ret : {Pending}]

\* mean, prop = self.combine(key, stats1[i], stats2[i])
Combine ==
    /\ call.op = "combine"
    /\ call.ret = Pending
    /\ call' = [call EXCEPT !.ret = combine(call.m1, call.m2)]
    /\ UNCHANGED <<module, kind, env, npoints, dataset, date_filter, self, pc,
                   loc, futures, tasks, asc, header, out, flushed, reads,
                   drained>>

SpecCombine == InitCombine /\ [][Combine]_vars


(***************************************************************************)
(* Properties.                                                             *)
(***************************************************************************)
ParallelRun == kind = "points" /\ pc # "new" /\ ~UsesLoop

\* The step (partition) whose point list holds the point a row is about.
StepOf(row) ==
    CHOOSE k \in DOMAIN futures :
        \E i \in DOMAIN futures[k].points :
            futures[k].points[i].metadata = row.meta

\* The rows the sequential daily loop (collect_data over the resident point
\* list, compute_one_day_ram per day) writes for the inputs of the job.
InMemoryRows ==
    LET days   == get_days(module, dataset, date_filter)
        points == read_points(Raster(Layer(dataset, 0), -NO_DATA), npoints, 1)
    IN  Flatten([i \in DOMAIN days |->
            compute_one_day_ram(to_date(days[i]), Layer(dataset, i - 1), points)])

\* C1: a finished points job has written the same set of (value, date,
\* label) rows whichever way it ran: the rows of the sequential in-memory
\* loop over the same points file, dataset and days.
C1_SameRowsAsInMemory ==
    (kind = "points" /\ pc = "done") => Range(out) = Range(InMemoryRows)

\* The partitions submitted to the pool whose rows are not yet written.
InFlight == Len(futures) - Len(drained)

\* C2: at every moment of execute_parallel at most 2 x worker_count
\* partitions are submitted and not yet drained.
C2_InFlightAtMostTwiceWorkers ==
    ParallelRun => InFlight <= 2 * self.workers

\* C2 as amended: at most 2 x worker_count + 1 partitions are in flight.
C2_InFlightAtMostTwiceWorkersPlusOne ==
    ParallelRun => InFlight <= 2 * self.workers + 1

\* C2 witness: the producer waits on backpressure with 2 x worker_count + 1
\* partitions in flight.
C2_Witness ==
    /\ ParallelRun
    /\ pc = "bp_wait"
    /\ InFlight = 2 * self.workers + 1

\* C3: in the output of execute_parallel the rows of a partition submitted
\* earlier all precede the rows of a partition submitted later.
C3_SubmissionOrder ==
    ParallelRun =>
        \A a, b \in DOMAIN out : a < b => StepOf(out[a]) <= StepOf(out[b])

\* The rows flushed to the output file.
Durable == Range(SubSeq(out, 1, flushed))

\* C4: once a day has been computed, by the daily loop or by a worker, its
\* rows are written and flushed to the output file.
C4_ComputedDaysAreFlushed ==
    /\ pc = "loop" => flushed = Len(out)
    /\ \A k \in DOMAIN futures : Range(futures[k].collection) \subseteq Durable

\* The index of a day offset in the time dimension of the dataset (0-based).
TimeIndex(day) == (CHOOSE t \in DOMAIN dataset.days : dataset.days[t] = day) - 1

\* The value of a row computed from the layer of the row's own date.
ValueOfOwnDay(row) ==
    LET layer == Layer(dataset, TimeIndex(row.date))
    IN  IF kind = "shapes"
        THEN compute_one_day_shapes(module, env.strategy, row.date,
                                    layer)[row.meta[1]].mean
        ELSE LET file_row == PointsFileRow(row.meta[1])
                 point == PointInRaster(Raster(Layer(dataset, 0), -NO_DATA),
                                        file_row.window, file_row.unitxy)
             IN  bilinear(point, Raster(layer, NO_DATA))

\* C5: every row written carries the value computed from the layer of the
\* time step whose day offset is the row's date, whatever the date filter.
C5_ValueFromLayerOfItsDay ==
    \A i \in DOMAIN out : out[i].mean = ValueOfOwnDay(out[i])


\* The size the memory test uses: the byte size of the file, times 15 when
\* the file name ends in .gz (in either letter case).
EstimatedSize ==
    IF env.suffix \in {"gz", "GZ"} THEN 15 * env.file_size ELSE env.file_size

InMemoryChosen == self.points_in_memory /\ ~self.partition
PartitionedChosen == ~self.points_in_memory /\ self.partition

\* C6: in-memory mode is chosen exactly when free memory exceeds 3 x the
\* estimated file size and the number of points in the file is below
\* 1,000,000; partitioned mode in every other case.
C6_ModeByPointCount ==
    (kind = "points" /\ pc # "new") =>
        IF env.mem > 3 * EstimatedSize /\ npoints < 1000000
        THEN InMemoryChosen ELSE PartitionedChosen

\* C6 as amended: the ceiling of 1,000,000 is on the number of lines of the
\* points file, its header line included.
C6_ModeByLineCount ==
    (kind = "points" /\ pc # "new") =>
        IF env.mem > 3 * EstimatedSize /\ npoints + 1 < 1000000
        THEN InMemoryChosen ELSE PartitionedChosen

\* C6 witness: a compressed file of 999,998 points that fits in memory only
\* just is taken in memory.
C6_Witness ==
    /\ pc = "constructed"
    /\ env.suffix = "gz"
    /\ env.file_size > 0
    /\ env.mem = 3 * EstimatedSize + 1
    /\ npoints = 999998
    /\ InMemoryChosen

\* C7: a job in in-memory mode reads the points file once and submits no
\* partition to a worker pool.
C7_InMemoryReadsOnceNoPartition ==
    (kind = "points" /\ pc = "done" /\ self.points_in_memory) =>
        reads = 1 /\ futures = <<>>

\* The output of the run in which the workers complete in the order of
\* submission, from the inputs alone: the points kept, cut into partitions
\* of max_len + 1, each replayed over the days; the points left over at the
\* end of the file are in no tracked partition.
SubmissionOrderOutput ==
    LET days   == get_days(module, dataset, date_filter)
        points == read_points(Raster(Layer(dataset, 0), -NO_DATA), npoints, 1)
        size   == max_len + 1
        block(k) == LET part == SubSeq(points, (k - 1) * size + 1, k * size)
                    IN  Flatten([i \in DOMAIN days |->
                            compute_one_day_ram(to_date(days[i]),
                                                Layer(dataset, i - 1), part)])
    IN  Flatten([k \in 1 .. (Len(points) \div size) |-> block(k)])

\* C8: the sequence of rows execute_parallel has written when it returns
\* is the same in every run over the same inputs, whatever the order in
\* which the workers complete: it is the output of the run in which they
\* complete in submission order.
C8_SameOutputEveryRun ==
    (ParallelRun /\ pc = "done") => out = SubmissionOrderOutput

\* Rows in day-major order: ascending dates, and within a date the order
\* in which the entities were read (their ids ascend in the source).
DayMajor(rows) ==
    \A i, j \in DOMAIN rows :
        i < j => \/ rows[i].date < rows[j].date
                 \/ /\ rows[i].date = rows[j].date
                    /\ rows[i].meta[1] < rows[j].meta[1]

C10_CombinedMean ==
    (call.op = "combine" /\ call.ret # Pending) =>
        /\ (call.m1.t = "num" /\ call.m2.t = "num") =>
               call.ret = Num((call.m1.v + call.m2.v) \div 2)
        /\ (call.m1.t = "none" /\ call.m2.t = "num") => call.ret = call.m2
        /\ (call.m1.t = "none" /\ call.m2.t = "none") => call.ret = NoneVal

\* C11: combine raises the inconsistency error exactly when center_mean is
\* non-null and touched_mean is null: it never raises when touched_mean is a
\* number (0 included) and never returns a value when center_mean is a
\* number and touched_mean is null.
C11_RaisesExactlyOnCenterWithoutTouched ==
    (call.op = "combine" /\ call.ret # Pending) =>
        (call.ret.t = "AssertionError"
            <=> (call.m1.t = "num" /\ call.m2.t = "none"))

(***************************************************************************)
(* PointInRaster on its own: one point of a 2x2 raster is classified       *)
(* against the first layer by add_point and then sampled from the layer    *)
(* of a day.  A cell is a valid number, a fill value of the netCDF         *)
(* variable (mask flag set), the number NO_DATA or the number -NO_DATA.    *)
(***************************************************************************)
PCells == Rows2 \X Rows2

CellKinds == {"valid", "fill", "nodata", "plus"}

\* The cell of a layer: the valid numbers of the window [[30, 40], [10, 20]]
\* are raised by `base` in the layers of later days.
KindCell(ck, cell, base) ==
    CASE ck = "valid"  -> [v |-> base + 30 - 20 * cell[1] + 10 * cell[2],
                             m |-> FALSE]
      [] ck = "fill"   -> [v |-> 32767, m |-> TRUE]
      [] ck = "nodata" -> [v |-> NO_DATA, m |-> FALSE]
      [] ck = "plus"   -> [v |-> 0 - NO_DATA, m |-> FALSE]

KindLayer(kinds, base) == [cell \in PCells |-> KindCell(kinds[cell], cell, base)]

\* The layers of a later day: every cell of one kind.
DayLayers ==
    {KindLayer([cell \in PCells |-> k], 100) : k \in {"valid", "fill", "nodata"}}

\* The upper left cells of the windows point_window_unitxy may return: in
\* the extent, partly beyond it (to the right, above) and wholly beyond it.
Origins == {<<0, 0>>, <<0, 1>>, <<-1, 0>>, <<0, 2>>}

NoPoint == [masked |-> -1]

\* The variables of the job while a function is exercised on its own.
NoJob ==
    /\ module = "gridmet.task"
    /\ kind = "points"
    /\ npoints = 0
    /\ dataset = [days |-> DatasetDays, masked |-> {},
                 variables |-> VariablesWithBand]
    /\ date_filter = NoFilter
    /\ env = [mem |-> 0, file_size |-> 0, suffix |-> "csv", cpu_count |-> cpu_count,
              strategy |-> "default"]
    /\ self = NewSelf
    /\ pc = "new"
    /\ loc = NewLoc
    /\ futures = <<>>
    /\ tasks = {}
    /\ asc = IdleAsc
    /\ header = <<>>
    /\ out = <<>>
    /\ flushed = 0
    /\ reads = 0
    /\ drained = <<>>

InitPoint ==
    /\ NoJob
    /\ \E kinds \in [PCells -> CellKinds], o \in Origins,
          x \in 0 .. UnitDen, y \in 0 .. UnitDen :
          \E layer \in {KindLayer(kinds, 0)} \cup DayLayers :
              call = [op     |-> "point",
                      first  |-> KindLayer(kinds, 0),
                      layer  |-> layer,
                      row    |-> [ZIP    |-> 1,
                                  SITE   |-> 0,
                                  window |-> << <<o[1], o[1] + 2>>,
                                                <<o[2], o[2] + 2>> >>,
                                  unitxy |-> <<x, y>>],
                      added  |-> "pending",
                      point  |-> NoPoint,
                      points |-> <<>>,
                      ret    |-> Pending]

\* self.add_point(row, points) against
\* self.first_layer = Raster(..., nodata=-NO_DATA)
AddPoint ==
    /\ call.op = "point"
    /\ call.added = "pending"
    /\ LET first_layer == Raster(call.first, 0 - NO_DATA)
           points == add_point(first_layer, call.row, <<>>)
       IN  call' = [call EXCEPT
                       !.point  = PointInRaster(first_layer, call.row.window,
                                                call.row.unitxy),
                       !.points = points,
                       !.added  = IF Len(points) = 1 THEN "True" ELSE "False"]
    /\ UNCHANGED <<module, kind, env, npoints, dataset, date_filter, self, pc,
                   loc, futures, tasks, asc, header, out, flushed, reads,
                   drained>>

\* mean = point.bilinear(raster) with raster = Raster(layer, nodata=NO_DATA)
Sample ==
    /\ call.op = "point"
    /\ call.added # "pending"
    /\ call.ret = Pending
    /\ call' = [call EXCEPT
                   !.ret = bilinear(call.point, Raster(call.layer, NO_DATA))]
    /\ UNCHANGED <<module, kind, env, npoints, dataset, date_filter, self, pc,
                   loc, futures, tasks, asc, header, out, flushed, reads,
                   drained>>

SpecPoint == InitPoint /\ [][AddPoint \/ Sample]_vars

\* The four cells of the window of the point in the layer being sampled.
WindowInExtent ==
    \A k \in 1 .. 4 :
        <<call.row.window[1][1] + Corners[k][1],
          call.row.window[2][1] + Corners[k][2]>> \in PCells

Sampled == call.op = "point" /\ call.ret # Pending

\* C12: for an unmasked point, bilinear returns
\* ll*(1-x)*(1-y) + lr*x*(1-y) + ul*(1-x)*y + ur*x*y over the cells
\* ul, ur, ll, lr = window [0,0], [0,1], [1,0], [1,1]; at the offsets of
\* {0,1} x {0,1} it equals one corner ((0,0) gives ll), and
\* (ll, lr, ul, ur) = (10, 20, 30, 40) at (0.5, 0.5) gives 25.
C12_BilinearFormula ==
    (Sampled /\ call.point.masked = 0
             /\ \A cell \in PCells : ~call.layer[cell].m) =>
        LET ul == call.layer[<<0, 0>>].v
            ur == call.layer[<<0, 1>>].v
            ll == call.layer[<<1, 0>>].v
            lr == call.layer[<<1, 1>>].v
            x  == call.row.unitxy[1]
            y  == call.row.unitxy[2]
            U  == UnitDen
        IN  /\ call.ret = Num( ll * (U - x) * (U - y) + lr * x * (U - y)
                             + ul * (U - x) * y + ur * x * y )
            /\ (x = 0 /\ y = 0) => call.ret = Num(ll * U * U)
            /\ (x = U /\ y = 0) => call.ret = Num(lr * U * U)
            /\ (x = 0 /\ y = U) => call.ret = Num(ul * U * U)
            /\ (x = U /\ y = U) => call.ret = Num(ur * U * U)
            /\ (<<ll, lr, ul, ur>> = <<10, 20, 30, 40>>
                    /\ 2 * x = U /\ 2 * y = U) =>
                   call.ret = Num(25 * U * U)

\* C12 witness: the unmasked point at (0.5, 0.5) of the window
\* (ll, lr, ul, ur) = (10, 20, 30, 40) has been sampled.
C12_Witness ==
    /\ Sampled
    /\ call.point.masked = 0
    /\ <<call.layer[<<1, 0>>], call.layer[<<1, 1>>],
         call.layer[<<0, 0>>], call.layer[<<0, 1>>]>>
           = <<[v |-> 10, m |-> FALSE], [v |-> 20, m |-> FALSE],
               [v |-> 30, m |-> FALSE], [v |-> 40, m |-> FALSE]>>
    /\ 2 * call.row.unitxy[1] = UnitDen
    /\ 2 * call.row.unitxy[2] = UnitDen
    /\ call.ret = Num(25 * UnitDen * UnitDen)

\* A cell holds no data in a raster: its mask flag is set or its number is
\* the nodata value of the raster.
NoDataCell(cell, nodata) == cell.m \/ cell.v = nodata

\* C13: when every one of the four cells of the 2x2 neighbourhood of a point
\* is no-data in the layer being sampled, the sampled value is None and
\* never a number, also when the neighbourhood was valid in the layer of
\* the first day.
C13_AllNoDataSamplesNone ==
    (Sampled /\ WindowInExtent
             /\ \A cell \in PCells : NoDataCell(call.layer[cell], NO_DATA)) =>
        call.ret = NoneVal

\* C14: a point whose window lies beyond the extent of the raster makes
\* add_point fail with an out-of-bounds error: the point is neither kept
\* with the value of a cell of the edge nor dropped without an error.
C14_OutsideExtentRaises ==
    (call.op = "point" /\ call.added # "pending" /\ ~WindowInExtent) =>
        call.added = "IndexError"

\* The output file has been opened for writing by the job.
FileOpened == pc \notin {"new", "constructed", "prepared", "failed"}

\* C15: in a points job with k >= 1 metadata columns, the header names the
\* variable, "date", the label column and every extra metadata column: the
\* header has 2 + k columns like every data row.
C15_HeaderHasColumnOfEveryMetadata ==
    (kind = "points" /\ FileOpened) =>
        /\ Len(header[1]) = 2 + Len(metadata)
        /\ \A i \in DOMAIN out : Len(header[1]) = 2 + Len(out[i].meta)

HasBand == \E i \in DOMAIN dataset.variables :
               dataset.variables[i].standard_name = band

\* C19: when no variable of the dataset has a standard_name equal to the
\* band, the task raises during prepare and aborts before the output file
\* is opened: no header or data row is written and the output file an
\* earlier run has left is not modified, in the daily loop of
\* ComputeGridmetTask.execute and in ComputePointsTask.execute_parallel.
C19_MissingVariableLeavesOutputUntouched ==
    ~HasBand =>
        /\ pc \in {"new", "constructed", "failed"}
        /\ ~FileOpened
        /\ header = <<StaleHeader>>
        /\ out = <<>>
        /\ flushed = 0

\* C19 witness: a points job of gridmet/task.py has failed in prepare on a
\* dataset without the band.
C19_Witness ==
    /\ ~HasBand
    /\ pc = "failed"
    /\ kind = "points"
    /\ module = "gridmet.task"
    /\ header = <<StaleHeader>>

\* C18: every partition execute_parallel submits to the pool holds at most
\* max_len points.
C18_PartitionAtMostMaxLen ==
    \A k \in DOMAIN futures : Len(futures[k].points) <= max_len

(***************************************************************************)
(* DateFilter on its own: get_days over days of the year 2020 under a      *)
(* "dayofmonth:", "month:" or "date:" filter.                              *)
(***************************************************************************)
\* The filters given on the command line, as value.split(':').
FilterValues ==
    { [prefix |-> "month",      list |-> <<"6", ",", "7", ",", "8">>],
      [prefix |-> "month",      list |-> <<"1">>],
      [prefix |-> "month",      list |-> <<"2", ",", " ", "1", "0">>],
      [prefix |-> "month",      list |-> <<"1", "1", ",", "1", "2">>],
      [prefix |-> "dayofmonth", list |-> <<"1", ",", "1", "5">>],
      [prefix |-> "dayofmonth", list |-> <<"3", "1">>],
      [prefix |-> "date",       list |-> <<"0", "6", "-", "1", "0">>],
      [prefix |-> "date",       list |-> <<"0", "2", "-", "2", "9", ",",
                                           "1", "2", "-", "2", "5">>],
      [prefix |-> "date",       list |-> <<"6", "-", "1">>],
      [prefix |-> "date",       list |-> <<"1", "0", "-", "2">>],
      [prefix |-> "date",       list |-> <<"1", "-", "1", ",", "1", "1", "-",
                                           "0", "5">>] }

\* get_days(self.dataset): the 366 days of the year, or three days in a row.
FullYear == [t \in 1 .. 366 |-> 43828 + t]

DayLists == {FullYear} \cup {SubSeq(FullYear, d, d + 2) : d \in 1 .. 364}

InitFilter ==
    /\ NoJob
    /\ call \in [op     : {"get_days"},
                 filter : {DateFilter(f.prefix, f.list) : f \in FilterValues},
                 days   : DayLists,
                 done   : {FALSE},
                 ret    : {<<>>}]

\* days = self.get_days()
GetDays ==
    /\ call.op = "get_days"
    /\ ~call.done
    /\ call' = [call EXCEPT
                   !.done = TRUE,
                   !.ret  = get_days("gridmet.task", [days |-> call.days],
                                     call.filter)]
    /\ UNCHANGED <<module, kind, env, npoints, dataset, date_filter, self, pc,
                   loc, futures, tasks, asc, header, out, flushed, reads,
                   drained>>

SpecFilter == InitFilter /\ [][GetDays]_vars

\* The number a string of decimal digits denotes (-1 when it is not one).
RECURSIVE ParseInt(_)
ParseInt(s) ==
    IF s = <<>> THEN -1
    ELSE LET last == s[Len(s)]
             d    == {i \in DOMAIN Digits : Digits[i] = last}
             rest == SubSeq(s, 1, Len(s) - 1)
         IN  IF d = {} THEN -1
             ELSE IF rest = <<>> THEN (CHOOSE i \in d : TRUE) - 1
             ELSE IF ParseInt(rest) < 0 THEN -1
             ELSE 10 * ParseInt(rest) + (CHOOSE i \in d : TRUE) - 1

Filtered(ftype) == call.op = "get_days" /\ call.done /\ call.filter.ftype = ftype

Denoted(v) ==
    LET parts == split(v, "-")
    IN  IF Len(parts) = 2 THEN <<ParseInt(parts[1]), ParseInt(parts[2])>>
        ELSE <<-1, -1>>

\* C17: a "date:" filter accepts a date if and only if its month and day of
\* the month are those denoted by one of the listed MM-DD values: no listed
\* value accepts a date of another day or month.
C17_DateFilterAcceptsDenotedDates ==
    Filtered("date") =>
        \A i \in DOMAIN call.days :
            (call.days[i] \in Range(call.ret))
              <=> (\E v \in Range(call.filter.values) :
                      Denoted(v) = <<DateFields(call.days[i]).month,
                                     DateFields(call.days[i]).day>>)

(***************************************************************************)
(* find_shape_file on its own (gridmet/gridmet_tools.py): `dirs` is the    *)
(* set of the years y for which os.path.isdir(shapes_dir/y) holds.         *)
(***************************************************************************)
NoShapeFile == [t |-> "None", dir |-> 0, esri |-> 0]

\* check_shape_file: the path <shapes_dir>/<year>/<geo>/<shape>/
\* ESRI<year - 2000>USZIP5_POLY_WGS84.shp, kept as its year directory and
\* the number in the file name.
check_shape_file(dirs, year) ==
    IF year \in dirs THEN [t |-> "path", dir |-> year, esri |-> year - 2000]
    ELSE NoShapeFile

\* while (1980 < y < 2021) and (shape_file is None): ...; y += d
RECURSIVE SearchYears(_, _, _)
SearchYears(dirs, y, d) ==
    IF ~(1980 < y /\ y < 2021) THEN NoShapeFile
    ELSE IF check_shape_file(dirs, y) # NoShapeFile
    THEN check_shape_file(dirs, y)
    ELSE SearchYears(dirs, y + d, d)

\* find_shape_file
find_shape_file(dirs, year) ==
    LET down == SearchYears(dirs, year, -1)
        up   == SearchYears(dirs, year, 1)
    IN  IF down # NoShapeFile THEN down
        ELSE IF up # NoShapeFile THEN up
        ELSE [t |-> "Exception", dir |-> 0, esri |-> 0]

\* The years asked for and the year directories that may exist.
RequestedYears == {1980, 1981, 1982, 2000, 2019, 2020, 2021}

YearDirs == {1979, 1980, 1981, 1999, 2000, 2020, 2021, 2022}

InitShape ==
    /\ NoJob
    /\ call \in [op   : {"find_shape_file"},
                 year : RequestedYears,
                 dirs : SUBSET YearDirs,
                 ret  : {Pending}]

\* GridmetTask.find_shape_file(context, year, shape)
FindShapeFile ==
    /\ call.op = "find_shape_file"
    /\ call.ret = Pending
    /\ call' = [call EXCEPT !.ret = find_shape_file(call.dirs, call.year)]
    /\ UNCHANGED <<module, kind, env, npoints, dataset, date_filter, self, pc,
                   loc, futures, tasks, asc, header, out, flushed, reads,
                   drained>>

SpecShape == InitShape /\ [][FindShapeFile]_vars

\* C20: for every requested year, find_shape_file returns the path of that
\* year when its directory exists, otherwise the path of the latest earlier
\* year whose directory exists; it raises only when no directory of the year
\* or of an earlier year exists.
C20_YearOrLatestEarlierYear ==
    (call.op = "find_shape_file" /\ call.ret # Pending) =>
        LET earlier == {y \in call.dirs : y < call.year}
        IN  /\ call.year \in call.dirs =>
                   call.ret = check_shape_file(call.dirs, call.year)
            /\ (call.year \notin call.dirs /\ earlier # {}) =>
                   call.ret = check_shape_file(call.dirs,
                       CHOOSE y \in earlier : \A z \in earlier : z <= y)
            /\ call.ret.t = "Exception" =>
                   (call.year \notin call.dirs /\ earlier = {})

(***************************************************************************)
(* disaggregate on its own (gridmet/gridmet_tools.py): a layer is the      *)
(* sequence of its rows, a row the sequence of its cells.                  *)
(***************************************************************************)
\* numpy.tile along one axis: the whole sequence, `repeats` times.
RECURSIVE tile(_, _)
tile(a, repeats) ==
    IF repeats = 0 THEN <<>> ELSE a \o tile(a, repeats - 1)

\* numpy.repeat(a, repeats) along the first axis: each element in turn,
\* `repeats` times.
RECURSIVE repeat(_, _)
repeat(a, repeats) ==
    IF a = <<>> THEN <<>>
    ELSE [k \in 1 .. repeats |-> Head(a)] \o repeat(Tail(a), repeats)

\* disaggregate(layer, factor); factor is None or a number.
disaggregate(layer, factor) ==
    IF ~Truthy(factor) \/ factor = Num(1) THEN layer
    ELSE LET arr == repeat(layer, factor.v)
         IN  [i \in DOMAIN arr |-> repeat(arr[i], factor.v)]

\* The layers and the factors disaggregate is given.
SmallLayers ==
    UNION { [1 .. r -> [1 .. c -> 0 .. 1]] : r \in 1 .. 2, c \in 1 .. 2 }

Factors == {NoneVal, Num(0), Num(1), Num(2), Num(3), Num(5)}

InitDisaggregate ==
    /\ NoJob
    /\ call \in [op     : {"disaggregate"},
                 layer  : SmallLayers,
                 factor : Factors,
                 done   : {FALSE},
                 ret    : {<<>>}]

\* layer = disaggregate(layer, self.factor)
Disaggregate ==
    /\ call.op = "disaggregate"
    /\ ~call.done
    /\ call' = [call EXCEPT !.done = TRUE,
                            !.ret  = disaggregate(call.layer, call.factor)]
    /\ UNCHANGED <<module, kind, env, npoints, dataset, date_filter, self, pc,
                   loc, futures, tasks, asc, header, out, flushed, reads,
                   drained>>

SpecDisaggregate == InitDisaggregate /\ [][Disaggregate]_vars

\* C21: disaggregate(layer, f) with an integer f > 1 maps a layer of shape
\* (r, c) to a layer of shape (r*f, c*f) whose cell [i, j] is the source
\* cell [i div f, j div f]; with f equal to 1, 0 or None the layer comes
\* back unchanged.
C21_DisaggregateBlocks ==
    (call.op = "disaggregate" /\ call.done) =>
        LET f == call.factor.v
            r == Len(call.layer)
            c == Len(call.layer[1])
        IN  IF call.factor.t = "num" /\ f > 1
            THEN /\ Len(call.ret) = r * f
                 /\ \A i \in 0 .. r * f - 1 :
                        /\ Len(call.ret[i + 1]) = c * f
                        /\ \A j \in 0 .. c * f - 1 :
                               call.ret[i + 1][j + 1]
                                 = call.layer[(i \div f) + 1][(j \div f) + 1]
            ELSE call.ret = call.layer

\* C21 witness: the factor 5 has been applied to a layer of shape (2, 2)
\* whose cells differ, giving a layer of shape (10, 10).
C21_Witness ==
    /\ call.op = "disaggregate"
    /\ call.done
    /\ call.factor = Num(5)
    /\ call.layer = << <<0, 1>>, <<1, 0>> >>
    /\ Len(call.ret) = 10
    /\ Len(call.ret[10]) = 10

\* C22: every partition execute_parallel hands to the worker pool, the one
\* built from the points left over at the end of the points file included,
\* has all of its rows written to the output by the time execute_parallel
\* returns.
C22_EveryPartitionWrittenAtReturn ==
    (ParallelRun /\ pc = "done") =>
        \A k \in DOMAIN futures :
            \E i \in DOMAIN drained : drained[i] = k

\* The rows written so far are the result lists of the drained partitions,
\* one whole list after the other in the order of the drains.
OutIsDrainedBlocks ==
    out = Flatten([i \in DOMAIN drained |-> futures[drained[i]].collection])

\* C24: in parallel mode the writes are serialized: a worker thread only
\* appends to the ListCollector of its own partition and never touches the
\* output, only the producer writes, and the rows of one partition are
\* written as one contiguous block, never interleaved with the rows of
\* another partition.
C24_OnlyProducerWritesWholeBlocks ==
    /\ [](ParallelRun /\ FileOpened => OutIsDrainedBlocks)
    /\ [][Worker =>
            /\ UNCHANGED <<header, out, flushed, drained>>
            /\ \E k \in DOMAIN futures :
                  \A j \in DOMAIN futures :
                      (j # k) => futures'[j].collection = futures[j].collection
         ]_vars

\* C24 witness: two partitions have been written while a later one is still
\* with its worker.
C24_Witness ==
    /\ ParallelRun
    /\ Len(drained) >= 2
    /\ \A i \in DOMAIN drained : futures[drained[i]].collection # <<>>
    /\ \E k \in DOMAIN futures :
          futures[k].status = "running" /\ futures[k].collection # <<>>

\* The classification of row i of the points file against the layer of the
\* first day of the dataset.
FirstDayPoint(i) ==
    PointInRaster(Raster(Layer(dataset, 0), 0 - NO_DATA),
                  PointsFileRow(i).window, PointsFileRow(i).unitxy)

\* The lists of points the job holds: self.points, the list being filled
\* and the lists of the submitted partitions.
PointLists ==
    {self.points, loc.points} \cup {futures[k].points : k \in DOMAIN futures}

\* The rows computed so far, written or still in a ListCollector.
ComputedRows ==
    Range(out) \cup UNION {Range(futures[k].collection) : k \in DOMAIN futures}

InvalidCorners ==
    {k \in 1 .. 4 :
        LET cell == <<call.row.window[1][1] + Corners[k][1],
                      call.row.window[2][1] + Corners[k][2]>>
        IN  \/ cell \notin PCells
            \/ call.first[cell].v = 0 - NO_DATA
            \/ call.first[cell].m}

\* C27: the classification counts a corner of the 2x2 window as invalid
\* when it is masked in the windowed read or in the array of the raster;
\* the state is completely masked iff all 4 corners are invalid, partially
\* masked iff 1 to 3 are, unmasked iff none is; when it is partially masked
\* the fallback cell (r, c) is a corner that was valid.
C27_ClassificationByInvalidCorners ==
    (call.op = "point" /\ call.added # "pending") =>
        LET m == Cardinality(InvalidCorners)
            p == call.point
        IN  /\ (p.masked = COMPLETELY_MASKED) <=> (m = 4)
            /\ (p.masked = PARTIALLY_MASKED) <=> (m \in 1 .. 3)
            /\ (p.masked = 0) <=> (m = 0)
            /\ (p.masked = PARTIALLY_MASKED) =>
                   \E k \in (1 .. 4) \ InvalidCorners :
                       /\ p.r = call.row.window[1][1] + Corners[k][1]
                       /\ p.c = call.row.window[2][1] + Corners[k][2]

\* C27 witness: a point with three invalid corners, the first one being the
\* valid one, has been classified partially masked.
C27_Witness ==
    /\ call.op = "point"
    /\ call.added # "pending"
    /\ InvalidCorners = {2, 3, 4}
    /\ call.point.masked = PARTIALLY_MASKED
    /\ call.point.r = call.row.window[1][1]
    /\ call.point.c = call.row.window[2][1]

\* C28: once the point list of a partition has been submitted to the pool
\* the producer never changes it: the points read afterwards go into a
\* fresh list, the points a worker walks are fixed for its whole run, and
\* the workers change no state of the task object.
C28_SubmittedListNeverChanges ==
    [][ /\ \A k \in DOMAIN futures :
              /\ k \in DOMAIN futures'
              /\ futures'[k].points = futures[k].points
        /\ (Len(futures') > Len(futures)) =>
              /\ futures'[Len(futures')].points = add_point(self.first_layer,
                     PointsFileRow(loc.nn + 1), loc.points)
                 \/ (pc = "reading" /\ loc.nn = npoints
                        /\ futures'[Len(futures')].points = loc.points)
              /\ pc' = "reading" => loc'.points = <<>>
        /\ Worker => UNCHANGED <<self, loc, tasks, dataset, date_filter>>
      ]_vars

\* C28 witness: after a partition has been submitted, a point read later
\* sits in the new list while the worker of the partition is running.
C28_Witness ==
    /\ pc = "reading"
    /\ loc.points # <<>>
    /\ \E k \in DOMAIN futures :
          /\ futures[k].status = "running"
          /\ futures[k].idx = 1
          /\ \A i \in DOMAIN loc.points, j \in DOMAIN futures[k].points :
                 loc.points[i] # futures[k].points[j]

\* C29: no partition has its rows written more than once: a partition
\* drained under backpressure leaves the tracked set before the producer
\* goes on, so the final drain does not write it again, whatever the order
\* in which the workers complete.
C29_NoPartitionWrittenTwice ==
    /\ \A i, j \in DOMAIN drained : (drained[i] = drained[j]) => (i = j)
    /\ \A i \in DOMAIN drained :
           (pc \in {"reading", "bp_begin", "bp_wait", "final_begin"}) =>
               drained[i] \notin tasks
    /\ (ParallelRun /\ FileOpened) =>
           Len(out) = Len(Flatten([i \in DOMAIN drained |->
                                      futures[drained[i]].collection]))

\* C29 witness: a partition was drained under backpressure and the final
\* drain has written another one.
C29_Witness ==
    /\ pc = "final_wait"
    /\ Len(drained) >= 2
    /\ drained[1] \notin tasks
    /\ drained[Len(drained)] \in tasks
    /\ out # <<>>

(***************************************************************************)
(* execute_parallel with the threads of the pool followed inside one       *)
(* iteration of execute_step: a worker enters the slice read               *)
(* self.dataset[self.variable][idx, :, :], which ends with the layer or    *)
(* with an error of the read; nothing in execute_step or execute_parallel  *)
(* takes a lock.                                                           *)
(***************************************************************************)
\* layer = self.dataset[self.variable][idx, :, :] is entered.
WorkerReadBegin(k) ==
    /\ k \in DOMAIN futures
    /\ futures[k].status = "running"
    /\ futures[k].idx < Len(loc.days)
    /\ futures' = [futures EXCEPT ![k].status = "reading"]
    /\ UNCHANGED <<module, kind, env, npoints, dataset, date_filter, self, pc,
                   loc, tasks, asc, header, out, flushed, reads, drained, call>>

\* The read returns the layer; compute_one_day_ram and collector.flush end
\* the iteration.
WorkerReadEnd(k) ==
    /\ k \in DOMAIN futures
    /\ futures[k].status = "reading"
    /\ LET idx   == futures[k].idx
           dt    == to_date(loc.days[idx + 1])
           layer == LayerRead(idx)
       IN  futures' = [futures EXCEPT
               ![k].collection = @ \o compute_one_day_ram(dt, layer,
                                                          futures[k].points),
               ![k].idx = idx + 1,
               ![k].status = "running"]
    /\ UNCHANGED <<module, kind, env, npoints, dataset, date_filter, self, pc,
                   loc, tasks, asc, header, out, flushed, reads, drained, call>>

\* The read raises (one read error per run is followed): execute_step ends
\* with the exception, which the future keeps; the waiter of a running
\* as_completed records the future.
WorkerFail(k) ==
    /\ k \in DOMAIN futures
    /\ futures[k].status = "reading"
    /\ \A j \in DOMAIN futures : futures[j].status # "failed"
    /\ futures' = [futures EXCEPT ![k].status = "failed"]
    /\ asc' = IF k \in asc.pending
              THEN [asc EXCEPT !.pending = @ \ {k}, !.queue = Append(@, k)]
              ELSE asc
    /\ UNCHANGED <<module, kind, env, npoints, dataset, date_filter, self, pc,
                   loc, tasks, header, out, flushed, reads, drained, call>>

\* completed_task.result() raises the exception of the task: it leaves the
\* loops and the `with` block of execute_parallel, and the job fails.
DrainRaise ==
    /\ pc \in {"bp_wait", "final_wait"}
    /\ \E k \in AscNext : futures[k].status = "failed"
    /\ pc' = "failed"
    /\ asc' = IdleAsc
    /\ UNCHANGED <<module, kind, env, npoints, dataset, date_filter, self, loc,
                   futures, tasks, header, out, flushed, reads, drained, call>>

WorkerThreads ==
    \E k \in DOMAIN futures :
        \/ WorkerStart(k)
        \/ WorkerReadBegin(k)
        \/ WorkerReadEnd(k)
        \/ WorkerFail(k)
        \/ WorkerReturn(k)

\* A points job of gridmet/task.py on a dataset that holds the band, with a
\* points file long enough for the backpressure and a date filter.
InitThreads ==
    /\ Init
    /\ module = "gridmet.task"
    /\ kind = "points"
    /\ npoints >= MaxPoints - 1
    /\ dataset.variables = VariablesWithBand
    /\ dataset.masked = {}
    /\ date_filter # NoFilter

NextThreads ==
    \/ Construct
    \/ Prepare
    \/ OpenParallel
    \/ ReadRow
    \/ EndOfFile
    \/ AsCompletedBegin
    \/ DrainOne
    \/ DrainFinal
    \/ DrainRaise
    \/ CloseParallel
    \/ WorkerThreads

SpecThreads == InitThreads /\ [][NextThreads]_vars

\* C23: when execute_step raises in the worker of any submitted partition,
\* the last one included, execute_parallel does not complete successfully:
\* the error reaches the caller and the job ends as failed.
C23_WorkerErrorFailsTheJob ==
    (pc = "done") => \A k \in DOMAIN futures : futures[k].status # "failed"

\* C25: the reads of the shared dataset by the worker threads are
\* serialized: at no time are two workers inside the slice read
\* self.dataset[self.variable][idx, :, :].
C25_DatasetReadsSerialized ==
    Cardinality({k \in DOMAIN futures : futures[k].status = "reading"}) <= 1

(***************************************************************************)
(* GridmetTask (gridmet/task.py): the compute tasks built from the         *)
(* context, all on the one result path of destination_file_name, executed  *)
(* one after the other.                                                    *)
(***************************************************************************)
\* The contexts: the shape files named on the command line, the shapes
\* asked for, whether a points file is given.
Contexts ==
    [shape_files : {<<>>, <<"f1">>, <<"f1", "f2">>, <<"f1", "f2", "f3">>},
     shapes      : {<<>>, <<"polygon">>, <<"point">>, <<"polygon", "point">>,
                    <<"point", "polygon">>},
     points      : BOOLEAN,
     ndays       : 1 .. NDays]

\* GridmetTask.destination_file_name: <variable>_<geography>_<shape>_<year>
\* in the destination directory, kept as its shape part.
destination_file_name(context) ==
    IF Len(context.shapes) = 1 THEN context.shapes[1] ELSE "all"

\* GridmetTask.__init__: self.compute_tasks, every task with the result path
\* as its outfile (<<>> stands for "Invalid combination of arguments").
compute_tasks(context) ==
    LET result == destination_file_name(context)
        shapes_tasks ==
            IF context.shape_files # <<>>
            THEN [i \in DOMAIN context.shape_files |->
                     [class |-> "ComputeShapesTask", outfile |-> result,
                      shapefile |-> context.shape_files[i]]]
            ELSE IF "polygon" \in Range(context.shapes) \/ ~context.points
            THEN [i \in DOMAIN context.shapes |->
                     [class |-> "ComputeShapesTask", outfile |-> result,
                      shapefile |-> context.shapes[i]]]
            ELSE <<>>
        points_tasks ==
            IF "point" \in Range(context.shapes) /\ context.points
            THEN << [class |-> "ComputePointsTask", outfile |-> result,
                     shapefile |-> "points"] >>
            ELSE <<>>
    IN  shapes_tasks \o points_tasks

\* The rows compute task i writes: one per day here, tagged with the task.
TaskRows(i, ndays) ==
    [d \in 1 .. ndays |-> [task |-> i, date |-> DatasetDays[1] + d - 1]]

\* ComputeGridmetTask.execute(mode="wt") and execute_parallel: the output
\* file is opened for writing, which empties it, then the header row and
\* the rows of the task are written.
execute(file, i, ndays) ==
    [header |-> <<HeaderRow("shapes")>>,
     out    |-> TaskRows(i, ndays)]

InitGridmet ==
    /\ NoJob
    /\ \E context \in Contexts :
          call = [op            |-> "GridmetTask",
                  context       |-> context,
                  compute_tasks |-> compute_tasks(context),
                  downloaded    |-> FALSE,
                  done          |-> 0]

\* self.download_task.execute()
Download ==
    /\ call.op = "GridmetTask"
    /\ call.compute_tasks # <<>>
    /\ ~call.downloaded
    /\ call' = [call EXCEPT !.downloaded = TRUE]
    /\ UNCHANGED <<module, kind, env, npoints, dataset, date_filter, self, pc,
                   loc, futures, tasks, asc, header, out, flushed, reads,
                   drained>>

\* One iteration of `for task in self.compute_tasks: task.execute()`.
ExecuteComputeTask ==
    /\ call.op = "GridmetTask"
    /\ call.downloaded
    /\ call.done < Len(call.compute_tasks)
    /\ LET file == execute([header |-> header, out |-> out], call.done + 1,
                           call.context.ndays)
       IN  /\ header' = file.header
           /\ out' = file.out
           /\ flushed' = Len(file.out)
    /\ call' = [call EXCEPT !.done = @ + 1]
    /\ UNCHANGED <<module, kind, env, npoints, dataset, date_filter, self, pc,
                   loc, futures, tasks, asc, reads, drained>>

SpecGridmet == InitGridmet /\ [][Download \/ ExecuteComputeTask]_vars

\* C30: when a GridmetTask holds more than one compute task, the execution
\* of a later compute task does not discard the rows an earlier one wrote:
\* after GridmetTask.execute the result file holds the rows of every
\* compute task.
C30_ResultHoldsRowsOfEveryTask ==
    (call.op = "GridmetTask" /\ call.done = Len(call.compute_tasks)) =>
        \A i \in DOMAIN call.compute_tasks :
            Range(TaskRows(i, call.context.ndays)) \subseteq Range(out)

====
